---- MODULE Spec2Model ----
(***************************************************************************)
(* Model of script/arxivCollector.py: the pagination loop of               *)
(* collect_records, the artifact pass of download_papers, write_output     *)
(* and the control flow of main.                                           *)
(*                                                                         *)
(* Python values are represented as follows.                               *)
(*   - Optional[T]: the empty set for None, the singleton {v} for v.       *)
(*   - str that the code inspects character by character (identifiers,     *)
(*     file names): a sequence of one-character strings.                   *)
(*   - str that is only stored and compared (titles, urls): a TLA+ string. *)
(*   - a record dict: a TLA+ record whose optional keys hold Optionals.    *)
(***************************************************************************)
EXTENDS Integers, Sequences, FiniteSets, TLC

(***************************************************************************)
(* Bounds of the model.                                                    *)
(***************************************************************************)
\* Largest page size (--size) explored.
MaxSize == 2
\* Largest page cap (--max-pages) explored.
MaxCap == 2
\* Largest result count a listing page advertises.
MaxTotal == 3
\* Largest number of records on one listing page.
MaxPageLen == 2
\* Page requests one run may issue before the model stops exploring it.
MaxFetches == 3
\* Longest record list handed to download_papers on its own.
MaxRecords == 3
\* Passes of download_papers over one record list.
MaxPasses == 2

(***************************************************************************)
(* Optional values.                                                        *)
(***************************************************************************)
None == {}
Some(v) == {v}
Get(o) == CHOOSE v \in o : TRUE
Optional(S) == {None} \cup {Some(v) : v \in S}

(***************************************************************************)
(* The listing server: what extract_records and extract_total_results      *)
(* can return for a page.  extract_records never yields an empty id (an    *)
(* empty label falls back to the last segment of the abs url).             *)
(***************************************************************************)
Ids == {<<"a">>, <<"b">>}
Titles == {"t1", "t2"}
PdfUrls == {"pdf"}

NewRecord(i, t, p) ==
    [id |-> i, title |-> t, abs_url |-> <<"abs">> \o i, pdf_url |-> p,
     pdf_local_path |-> None, pdf_download_error |-> None]

\* A title t1 listing carries a pdf link, a t2 listing does not.
ServerRecords ==
    {NewRecord(i, "t1", Some("pdf")) : i \in Ids}
        \cup {NewRecord(i, "t2", None) : i \in Ids}

RECURSIVE SeqsUpTo(_, _)
SeqsUpTo(S, n) ==
    IF n = 0 THEN {<<>>}
    ELSE LET shorter == SeqsUpTo(S, n - 1)
         IN  shorter \cup {Append(s, x) : s \in {t \in shorter : Len(t) = n - 1}, x \in S}

Pages == SeqsUpTo(ServerRecords, MaxPageLen)
PageTotals == Optional(0..MaxTotal)

VARIABLES
    pc,             \* position of main
    size,           \* args.size
    max_pages,      \* args.max_pages (Optional)
    dry_run,        \* args.dry_run
    cookie,         \* whether ARXIV_COOKIE is set
    initial_referer,        \* ARXIV_REFERER (Optional)
    initial_sec_fetch_site, \* ARXIV_SEC_FETCH_SITE or its default (Optional)
    collected,      \* collect_records: collected
    seen,           \* collect_records: seen
    start,          \* collect_records: start
    total_results,  \* collect_records: total_results (Optional)
    page_index,     \* collect_records: page_index
    last_referer,   \* collect_records: last_referer (Optional)
    stop,           \* which break left the while loop
    fetchLog,       \* the page requests issued: start offset, the start
                    \* parameter and the two headers sent (Optional each),
                    \* and whether the response arrived with a success status
    emptyPages,     \* number of pages received that held no record
    firstExposed,   \* the first total a received page advertised (Optional)
    exposedAt,      \* number of the page that advertised it (0: none yet)
    disagreed,      \* a later page advertised another total than the first
    conflict,       \* a page listed an id again with other field values
    firstSeen,      \* per id, the first record the server listed with it
    seenOrder,      \* the ids the server listed, in the order of their
                    \* first listing
    records,        \* main: records, the list download_papers annotates
    idx,            \* download_papers: position of the for loop in records
    files,          \* data_dir: state of the file at each destination
    dirs,           \* directories created by this run
    metadata,       \* metadata_dir / results.json (Optional)
    fetched,        \* positions for which this pass issued a pdf request
    pass,           \* number of the running download_papers pass
    prevPaths,      \* pdf_local_path of each record when the pass began
    partialWrites,  \* destinations at which a write of download_papers
                    \* failed and left part of the body
    arg,            \* argument of a function called on its own
    ret             \* what that call returned (Optional)

cfgVars == <<size, max_pages, dry_run, cookie, initial_referer,
            initial_sec_fetch_site>>
colVars == <<collected, seen, start, total_results, page_index, last_referer,
            stop>>
obsVars == <<fetchLog, emptyPages, firstExposed, exposedAt, disagreed, conflict,
            firstSeen, seenOrder>>
arcVars == <<records, idx, files, fetched, pass, prevPaths, partialWrites>>
outVars == <<dirs, metadata>>
fnVars == <<arg, ret>>

vars == <<pc, cfgVars, colVars, obsVars, arcVars, outVars, fnVars>>

(***************************************************************************)
(* slugify and sanitize_filename, over the characters the model uses.      *)
(***************************************************************************)
\* The characters of the model that \s matches and str.strip() removes.
Whitespace == {" "}
\* The characters of the model inside [A-Za-z0-9_.-].
SafeChars ==
    {"a", "b", "c", "e", "g", "h", "i", "m", "n", "o", "p", "q", "r", "s", "t",
     "u", "A", "0", "_", ".", "-"}
\* line 283: the fallback name
DefaultName == <<"s", "e", "a", "r", "c", "h">>

RECURSIVE LStrip(_, _)
LStrip(s, cs) ==
    IF s # <<>> /\ Head(s) \in cs THEN LStrip(Tail(s), cs) ELSE s

RECURSIVE RStrip(_, _)
RStrip(s, cs) ==
    IF s # <<>> /\ s[Len(s)] \in cs
    THEN RStrip(SubSeq(s, 1, Len(s) - 1), cs)
    ELSE s

\* str.strip(chars)
Strip(s, cs) == RStrip(LStrip(s, cs), cs)

\* Every whitespace character replaced by an underscore of its own.
RECURSIVE CollapseWhitespaceEach(_)
CollapseWhitespaceEach(s) ==
    IF s = <<>> THEN <<>>
    ELSE <<IF Head(s) \in Whitespace THEN "_" ELSE Head(s)>>
            \o CollapseWhitespaceEach(Tail(s))

\* line 280: re.sub(r"\s+", "_", ...): every maximal run of whitespace
\* becomes one underscore
RECURSIVE CollapseWhitespace(_)
CollapseWhitespace(s) ==
    IF s = <<>> THEN <<>>
    ELSE IF Head(s) \in Whitespace
         THEN <<"_">> \o CollapseWhitespace(LStrip(s, Whitespace))
         ELSE <<Head(s)>> \o CollapseWhitespace(Tail(s))

\* line 281: re.sub(r"[^A-Za-z0-9_.-]", "_", safe)
RECURSIVE ReplaceUnsafe(_)
ReplaceUnsafe(s) ==
    IF s = <<>> THEN <<>>
    ELSE <<IF Head(s) \in SafeChars THEN Head(s) ELSE "_">>
            \o ReplaceUnsafe(Tail(s))

\* lines 279-283
slugify(value) ==
    LET safe == Strip(ReplaceUnsafe(CollapseWhitespace(Strip(value, Whitespace))),
                      {"_", "."})
    IN  IF safe = <<>> THEN DefaultName ELSE safe

\* lines 286-287
sanitize_filename(value) == slugify(value)

\* lines 299-300: data_dir / (sanitize_filename(identifier) + ".pdf")
Destination(identifier) == sanitize_filename(identifier) \o <<".pdf">>

(***************************************************************************)
(* collect_records                                                         *)
(***************************************************************************)
\* Mutants of CapReached: the comparison off by one, either way.
CapReachedStrict(cap, index) == cap # None /\ index > Get(cap)
CapReachedEarly(cap, index) == cap # None /\ index + 1 >= Get(cap)

\* line 221: max_pages is not None and page_index >= max_pages
CapReached(cap, index) == cap # None /\ index >= Get(cap)

\* Mutant of KeepRecord: the seen set is not consulted.
KeepRecordNoDedup(record_id, sn) == record_id # <<>>

\* lines 254-258: a record is kept unless its id is empty or already seen
KeepRecord(record_id, sn) == record_id # <<>> /\ record_id \notin sn

\* Mutant of Accumulate: a kept record is put in front of the list.
RECURSIVE AccumulateInFront(_, _, _)
AccumulateInFront(col, sn, page) ==
    IF page = <<>> THEN [collected |-> col, seen |-> sn]
    ELSE LET record == Head(page)
         IN  IF KeepRecord(record.id, sn)
             THEN AccumulateInFront(<<record>> \o col, sn \cup {record.id},
                                    Tail(page))
             ELSE AccumulateInFront(col, sn, Tail(page))

\* lines 253-261: the for loop over page_records
RECURSIVE Accumulate(_, _, _)
Accumulate(col, sn, page) ==
    IF page = <<>> THEN [collected |-> col, seen |-> sn]
    ELSE LET record == Head(page)
         IN  IF KeepRecord(record.id, sn)
             THEN Accumulate(Append(col, record), sn \cup {record.id}, Tail(page))
             ELSE Accumulate(col, sn, Tail(page))

\* Mutant of PageExhausted: an empty page does not end the loop.
PageExhaustedNever(page) == FALSE

\* line 251: not page_records
PageExhausted(page) == page = <<>>

\* Mutant of CaptureTotal: every page that advertises a total overwrites it.
CaptureTotalLatest(total, pageTotal) ==
    IF pageTotal # None THEN pageTotal ELSE total

\* lines 263-264: the total is read from the page only while it is None
CaptureTotal(total, pageTotal) == IF total = None THEN pageTotal ELSE total

\* Mutant of TargetReached: strict comparison.
TargetReachedStrict(total, offset) == total # None /\ offset > Get(total)

\* line 272: total_results is not None and start >= total_results
TargetReached(total, offset) == total # None /\ offset >= Get(total)

\* Mutant of Advance: the offset moves by one whatever the page size.
AdvanceByOne(offset, pageSize) == offset + 1

\* line 269: start += size
Advance(offset, pageSize) == offset + pageSize

\* The first record of a page with a given id.
FirstWithId(page, i) ==
    page[CHOOSE k \in 1..Len(page) :
            /\ page[k].id = i
            /\ \A j \in 1..(k - 1) : page[j].id # i]

\* firstSeen after one more page of the server's listing.
NoteFirstSeen(fs, page) ==
    [i \in Ids |->
        IF fs[i] # None THEN fs[i]
        ELSE IF \E k \in 1..Len(page) : page[k].id = i
             THEN Some(FirstWithId(page, i))
             ELSE None]

\* Whether a page lists an id a second time, after firstSeen or within the
\* page, with field values other than those of its first listing.
Conflicts(fs, page) ==
    \E k \in 1..Len(page) :
        LET first == NoteFirstSeen(fs, page)[page[k].id]
        IN  first # Some(page[k])

\* The ids a page lists that are not in `known`, once each, in the order of
\* their first position in the page.
FirstListed(page, known) ==
    LET isKnown(i) == \E n \in 1..Len(known) : known[n] = i
        firsts == {k \in 1..Len(page) :
                     /\ ~isKnown(page[k].id)
                     /\ \A j \in 1..(k - 1) : page[j].id # page[k].id}
    IN  [n \in 1..Cardinality(firsts) |->
            page[CHOOSE k \in firsts : Cardinality({j \in firsts : j <= k}) = n].id]

\* lines 233-234: params["start"] is set only for a positive offset
StartParam(offset) == IF offset > 0 THEN Some(offset) ELSE None

\* line 195: response.url of the response to the n-th page request
FetchedUrl(n) == <<"url", n>>
\* line 137: a value of ARXIV_REFERER
InitialUrl == <<"initial", 0>>
\* line 138: values of ARXIV_SEC_FETCH_SITE; "cross-site" is the default
SiteSignals == {"cross-site", "none"}

\* lines 237-240: the Referer header of a page request
PageReferer(last, initial) ==
    IF last # None THEN last
    ELSE IF initial # None THEN initial
    ELSE None

\* lines 241-244: the Sec-Fetch-Site header of a page request
PageSite(last, initialSite) ==
    IF initialSite # None
    THEN Some(IF last # None THEN "same-origin" ELSE Get(initialSite))
    ELSE None

\* lines 224-248: the page request as issued, and whether it succeeded
PageRequest(ok) ==
    [start   |-> start,
     param   |-> StartParam(start),
     referer |-> PageReferer(last_referer, initial_referer),
     site    |-> PageSite(last_referer, initial_sec_fetch_site),
     ok      |-> ok]

\* lines 220-222: the cap check ends the loop
CapBreak ==
    /\ pc = "loop"
    /\ CapReached(max_pages, page_index)
    /\ pc' = "return"
    /\ stop' = "cap"
    /\ UNCHANGED <<collected, seen, start, total_results, page_index,
                   last_referer>>
    /\ UNCHANGED <<cfgVars, fnVars, obsVars, arcVars, outVars>>

\* Mutant of FetchError: the failure is swallowed and taken for the end of
\* the results.
FetchErrorSwallowed ==
    /\ pc = "loop"
    /\ ~CapReached(max_pages, page_index)
    /\ Len(fetchLog) < MaxFetches
    /\ fetchLog' = Append(fetchLog, PageRequest(FALSE))
    /\ pc' = "return"
    /\ stop' = "exhausted"
    /\ UNCHANGED <<collected, seen, start, total_results, page_index,
                   last_referer>>
    /\ UNCHANGED <<emptyPages, firstExposed, exposedAt, disagreed, conflict,
                   firstSeen, seenOrder>>
    /\ UNCHANGED <<cfgVars, fnVars, arcVars, outVars>>

\* lines 246-248 with 194-195: the page request fails, and the exception
\* leaves collect_records and main
FetchError ==
    /\ pc = "loop"
    /\ ~CapReached(max_pages, page_index)
    /\ Len(fetchLog) < MaxFetches
    /\ fetchLog' = Append(fetchLog, PageRequest(FALSE))
    /\ pc' = "aborted"
    /\ UNCHANGED <<emptyPages, firstExposed, exposedAt, disagreed, conflict,
                   firstSeen, seenOrder>>
    /\ UNCHANGED <<cfgVars, fnVars, colVars, arcVars, outVars>>

\* lines 220-273: one iteration of the while loop whose fetch succeeds with
\* the records `page` and the advertised total `pageTotal`
Iterate(page, pageTotal) ==
    /\ pc = "loop"
    /\ ~CapReached(max_pages, page_index)
    /\ Len(fetchLog) < MaxFetches
    /\ fetchLog' = Append(fetchLog, PageRequest(TRUE))
    /\ last_referer' = Some(FetchedUrl(Len(fetchLog) + 1))
    /\ seenOrder' = seenOrder \o FirstListed(page, seenOrder)
    /\ emptyPages' = emptyPages + (IF page = <<>> THEN 1 ELSE 0)
    /\ firstExposed' = IF exposedAt = 0 THEN pageTotal ELSE firstExposed
    /\ exposedAt' = IF exposedAt = 0 /\ pageTotal # None
                    THEN Len(fetchLog) + 1 ELSE exposedAt
    /\ disagreed' = (disagreed \/ (exposedAt # 0 /\ pageTotal \notin {None, firstExposed}))
    /\ conflict' = (conflict \/ Conflicts(firstSeen, page))
    /\ firstSeen' = NoteFirstSeen(firstSeen, page)
    /\ IF PageExhausted(page)
       THEN /\ pc' = "return"
            /\ stop' = "exhausted"
            /\ UNCHANGED <<collected, seen, start, total_results, page_index>>
       ELSE LET acc == Accumulate(collected, seen, page)
                total == CaptureTotal(total_results, pageTotal)
                offset == Advance(start, size)
            IN  /\ collected' = acc.collected
                /\ seen' = acc.seen
                /\ total_results' = total
                /\ start' = offset
                /\ page_index' = page_index + 1
                /\ IF TargetReached(total, offset)
                   THEN pc' = "return" /\ stop' = "target"
                   ELSE pc' = "loop" /\ stop' = stop
    /\ UNCHANGED <<cfgVars, fnVars, arcVars, outVars>>

LoopStep == \E page \in Pages, pageTotal \in PageTotals : Iterate(page, pageTotal)

(***************************************************************************)
(* download_papers                                                         *)
(***************************************************************************)
FileStates == {"absent", "partial", "full"}
\* Outcome of session.get with raise_for_status (lines 305-313).
NetOutcomes == {"ok", "fail"}
\* Outcome of destination.write_bytes (line 314): the whole body written,
\* the file not created, or the file created and the body cut short.
WriteOutcomes == {"ok", "fail_nofile", "fail_partial"}

\* Mutant of Skipped: only a missing id makes the loop skip a record.
SkippedWithoutId(record) == record.id = <<>>

\* line 297: not pdf_url or not identifier
Skipped(record) == record.pdf_url = None \/ record.id = <<>>

\* Mutant of Exists: the existence check is dropped.
ExistsNever(fs, destination) == FALSE

\* line 301: destination.exists()
Exists(fs, destination) == fs[destination] # "absent"

\* lines 302, 315: record["pdf_local_path"] = str(destination)
SetLocalPath(record, destination) ==
    [record EXCEPT !.pdf_local_path = Some(destination)]

\* line 317: record["pdf_download_error"] = str(exc)
SetDownloadError(record, message) ==
    [record EXCEPT !.pdf_download_error = Some(message)]

\* lines 295-317: the body of the for loop for the record at idx, with the
\* outcome `net` of the request and `wr` of the write
DownloadStep(net, wr) ==
    /\ pc = "download"
    /\ idx <= Len(records)
    /\ idx' = idx + 1
    /\ LET record == records[idx]
           destination == Destination(record.id)
       IN  IF Skipped(record)
           THEN UNCHANGED <<records, files, fetched>>
           ELSE IF Exists(files, destination)
           THEN /\ records' = [records EXCEPT ![idx] = SetLocalPath(record, destination)]
                /\ UNCHANGED <<files, fetched>>
           ELSE /\ fetched' = fetched \cup {idx}
                /\ IF net = "fail"
                   THEN /\ records' = [records EXCEPT
                                          ![idx] = SetDownloadError(record, "fetch failed")]
                        /\ UNCHANGED files
                   ELSE IF wr = "ok"
                   THEN /\ files' = [files EXCEPT ![destination] = "full"]
                        /\ records' = [records EXCEPT
                                          ![idx] = SetLocalPath(record, destination)]
                   ELSE /\ files' = [files EXCEPT ![destination] =
                                        IF wr = "fail_partial" THEN "partial" ELSE "absent"]
                        /\ records' = [records EXCEPT
                                          ![idx] = SetDownloadError(record, "write failed")]
    /\ partialWrites' = partialWrites \cup
            {d \in DOMAIN files : files[d] # "partial" /\ files'[d] = "partial"}
    /\ UNCHANGED <<pc, pass, prevPaths>>
    /\ UNCHANGED <<cfgVars, fnVars, colVars, obsVars, outVars>>

Download == \E net \in NetOutcomes, wr \in WriteOutcomes : DownloadStep(net, wr)

(***************************************************************************)
(* main and write_output                                                   *)
(***************************************************************************)
\* lines 368-369: output_root.mkdir
MakeOutputRoot ==
    /\ pc = "main"
    /\ dirs' = dirs \cup {"output_root"}
    /\ pc' = "session"
    /\ UNCHANGED <<metadata, cfgVars, fnVars, colVars, obsVars, arcVars>>

\* lines 371, 93-100: build_session raises when the cookie is missing;
\* line 217: collect_records starts with last_referer = initial_referer
BuildSession ==
    /\ pc = "session"
    /\ pc' = IF cookie THEN "loop" ELSE "aborted"
    /\ last_referer' = IF cookie THEN initial_referer ELSE last_referer
    /\ UNCHANGED <<collected, seen, start, total_results, page_index, stop>>
    /\ UNCHANGED <<cfgVars, fnVars, obsVars, arcVars, outVars>>

\* lines 372-389: collect_records returns and the dry run ends main
DryRunReturn ==
    /\ pc = "return"
    /\ dry_run
    /\ records' = collected
    /\ pc' = "done"
    /\ UNCHANGED <<idx, files, fetched, pass, prevPaths, partialWrites>>
    /\ UNCHANGED <<cfgVars, fnVars, colVars, obsVars, outVars>>

\* lines 372-391, 331-337, 293: collect_records returns, write_output makes
\* the metadata directory and download_papers the data directory
WriteOutputStart ==
    /\ pc = "return"
    /\ ~dry_run
    /\ records' = collected
    /\ dirs' = dirs \cup {"base_dir", "metadata_dir", "data_dir"}
    /\ idx' = 1
    /\ pc' = "download"
    /\ UNCHANGED <<files, fetched, pass, prevPaths, partialWrites, metadata>>
    /\ UNCHANGED <<cfgVars, fnVars, colVars, obsVars>>

\* Mutant of Payload: only the records whose download succeeded are written.
PayloadDownloadedOnly(recs) ==
    LET kept == SelectSeq(recs, LAMBDA r : r.pdf_local_path # None)
    IN  [complete |-> TRUE, count |-> Len(kept), records |-> kept]

\* lines 340-352: the payload, with its count and its records
Payload(recs) == [complete |-> TRUE, count |-> Len(recs), records |-> recs]

\* lines 339-357: download_papers has returned and the payload is written
WriteMetadata ==
    /\ pc = "download"
    /\ idx > Len(records)
    /\ metadata' = Some(Payload(records))
    /\ pc' = "done"
    /\ UNCHANGED <<dirs, cfgVars, fnVars, colVars, obsVars, arcVars>>

\* lines 353-355: opening or writing results.json fails; the file may be
\* left cut short
WriteMetadataError ==
    /\ pc = "download"
    /\ idx > Len(records)
    /\ metadata' \in {metadata,
                      Some([complete |-> FALSE, count |-> 0, records |-> <<>>])}
    /\ pc' = "aborted"
    /\ UNCHANGED <<dirs, cfgVars, fnVars, colVars, obsVars, arcVars>>

\* Identifiers handed to download_papers on its own: those of the server, one
\* that differs from <<"a">> only in an unsafe character, and the empty one.
ArchiveIds == Ids \cup {<<"a", "/">>, <<>>}

Destinations == {Destination(i) : i \in (Ids \cup ArchiveIds) \ {<<>>}}

\* The data directory main starts with: empty, or holding files an earlier
\* run completed.
InitialFileStates == {"absent", "full"}

Init ==
    /\ pc = "main"
    /\ size \in 1..MaxSize
    /\ max_pages \in Optional(0..MaxCap)
    /\ dry_run \in BOOLEAN
    /\ cookie \in BOOLEAN
    /\ initial_referer = None
    /\ initial_sec_fetch_site = Some("cross-site")
    /\ last_referer = None
    /\ seenOrder = <<>>
    /\ collected = <<>>
    /\ seen = {}
    /\ start = 0
    /\ total_results = None
    /\ page_index = 0
    /\ stop = "none"
    /\ fetchLog = <<>>
    /\ emptyPages = 0
    /\ firstExposed = None
    /\ exposedAt = 0
    /\ disagreed = FALSE
    /\ conflict = FALSE
    /\ firstSeen = [i \in Ids |-> None]
    /\ records = <<>>
    /\ idx = 1
    /\ files \in [Destinations -> InitialFileStates]
    /\ dirs = {}
    /\ metadata = None
    /\ fetched = {}
    /\ pass = 1
    /\ prevPaths = <<>>
    /\ partialWrites = {}
    /\ arg = <<>>
    /\ ret = None

Next ==
    \/ MakeOutputRoot
    \/ BuildSession
    \/ CapBreak
    \/ FetchError
    \/ LoopStep
    \/ DryRunReturn
    \/ WriteOutputStart
    \/ Download
    \/ WriteMetadata
    \/ WriteMetadataError

Spec == Init /\ [][Next]_vars

(***************************************************************************)
(* download_papers called repeatedly over one record list and one data     *)
(* directory, as a caller of the function may do.                          *)
(***************************************************************************)
ArchiveRecords ==
    {NewRecord(i, "t1", p) : i \in ArchiveIds, p \in Optional(PdfUrls)}

\* Record lists as collect_records returns them: no id twice.
ArchiveInputs ==
    {s \in SeqsUpTo(ArchiveRecords, MaxRecords) :
        \A j, k \in 1..Len(s) : s[j].id = s[k].id => j = k}

PathsOf(recs) == [k \in 1..Len(recs) |-> recs[k].pdf_local_path]

InitArchive ==
    /\ pc = "download"
    /\ size = 1
    /\ max_pages = None
    /\ dry_run = FALSE
    /\ cookie = TRUE
    /\ initial_referer = None
    /\ initial_sec_fetch_site = Some("cross-site")
    /\ last_referer = None
    /\ seenOrder = <<>>
    /\ collected = <<>>
    /\ seen = {}
    /\ start = 0
    /\ total_results = None
    /\ page_index = 0
    /\ stop = "none"
    /\ fetchLog = <<>>
    /\ emptyPages = 0
    /\ firstExposed = None
    /\ exposedAt = 0
    /\ disagreed = FALSE
    /\ conflict = FALSE
    /\ firstSeen = [i \in Ids |-> None]
    /\ records \in ArchiveInputs
    /\ idx = 1
    /\ files \in [Destinations -> FileStates]
    /\ dirs = {"data_dir"}
    /\ metadata = None
    /\ fetched = {}
    /\ pass = 1
    /\ prevPaths = PathsOf(records)
    /\ partialWrites = {}
    /\ arg = <<>>
    /\ ret = None

\* lines 290-294: download_papers is called again with the same records and
\* the same data_dir
NextPass ==
    /\ pc = "download"
    /\ idx > Len(records)
    /\ pass < MaxPasses
    /\ pass' = pass + 1
    /\ idx' = 1
    /\ fetched' = {}
    /\ prevPaths' = PathsOf(records)
    /\ UNCHANGED <<pc, records, files, partialWrites>>
    /\ UNCHANGED <<cfgVars, fnVars, colVars, obsVars, outVars>>

NextArchive ==
    \/ Download
    \/ NextPass

SpecArchive == InitArchive /\ [][NextArchive]_vars

(***************************************************************************)
(* Properties of collect_records.                                          *)
(***************************************************************************)
CeilDiv(a, b) == (a + b - 1) \div b

\* C1: collected holds each id at most once, and the record kept for an id
\* is the first one the server listed with that id, in fetch order and in
\* page order, whatever later pages or later items list under the same id.
C1_DedupFirstWins ==
    /\ \A j, k \in 1..Len(collected) :
          collected[j].id = collected[k].id => j = k
    /\ \A k \in 1..Len(collected) :
          firstSeen[collected[k].id] = Some(collected[k])

\* collect_records returns both ids after the server listed one of them a
\* second time with other field values.
C1_Witness ==
    /\ pc = "return"
    /\ conflict
    /\ Len(collected) = 2

\* C2: with no cap, a total T >= 1 advertised by the first page and no empty
\* page, no request carries an offset >= T, and when the loop has ended the
\* requests issued are exactly those at offsets 0, s, 2s, ..., ceil(T/s) of
\* them.
C2_TargetReached ==
    (/\ max_pages = None
     /\ exposedAt = 1
     /\ Get(firstExposed) >= 1
     /\ emptyPages = 0
     /\ \A k \in 1..Len(fetchLog) : fetchLog[k].ok)
    => /\ \A k \in 1..Len(fetchLog) : fetchLog[k].start < Get(firstExposed)
       /\ stop # "none" =>
            /\ Len(fetchLog) = CeilDiv(Get(firstExposed), size)
            /\ \A k \in 1..Len(fetchLog) : fetchLog[k].start = (k - 1) * size

\* Total 3 with page size 2: the loop ends on the target after two requests.
C2_Witness ==
    /\ stop = "target"
    /\ max_pages = None
    /\ size = 2
    /\ exposedAt = 1
    /\ firstExposed = Some(3)
    /\ emptyPages = 0
    /\ Len(fetchLog) = 2

\* C3: with a cap c the number of page requests issued never exceeds c, and
\* with c = 1 a run that got as far as the loop and left it (by a break or by
\* a failed request) has issued exactly one request.
C3_PageCap ==
    max_pages # None =>
        /\ Len(fetchLog) <= Get(max_pages)
        /\ (max_pages = Some(1) /\ (stop # "none" \/ (pc = "aborted" /\ cookie)))
              => Len(fetchLog) = 1

\* Cap 1 ends the loop after one request although the advertised total 3 has
\* not been reached.
C3_Witness ==
    /\ max_pages = Some(1)
    /\ stop = "cap"
    /\ Len(fetchLog) = 1
    /\ total_results = Some(3)

\* C4: total_results, once set, is the total of the first page that
\* advertised one, whatever later pages advertise; while no empty page was
\* received it is set as soon as a page has advertised one; and a stop on the
\* target is a stop on that first total.
C4_FirstTotalWins ==
    /\ total_results # None => total_results = firstExposed
    /\ emptyPages = 0 => total_results = firstExposed
    /\ stop = "target" => start >= Get(firstExposed)

\* The first page advertised a total, a later page another one, and the loop
\* ran to the first total.
C4_Witness ==
    /\ disagreed
    /\ exposedAt = 1
    /\ page_index >= 2
    /\ total_results = firstExposed
    /\ stop = "target"

\* C5: the step that receives an empty page leaves collected as it was and
\* ends the loop as exhausted; after an empty page no request is issued and
\* collected does not change; and what collect_records returns is collected.
C5_Exhaustion ==
    [][/\ emptyPages' > emptyPages =>
            (collected' = collected /\ pc' = "return" /\ stop' = "exhausted")
       /\ emptyPages > 0 => (fetchLog' = fetchLog /\ collected' = collected)
       /\ (pc = "return" /\ pc' # "return") => records' = collected]_vars

\* An empty page ended a run that had collected records and knew a total it
\* had not reached.
C5_Witness ==
    /\ pc = "done"
    /\ stop = "exhausted"
    /\ Len(records) >= 1
    /\ total_results # None
    /\ start < Get(total_results)

\* C6: the loop is left, other than by an exception, by one break whose
\* condition holds: the cap (page_index >= cap, checked at the loop head), an
\* empty page, or the target (total known and start >= total, after a
\* non-empty page).  At the loop head no page was empty and the target does
\* not hold, so with the cap not reached the cap break is disabled and the
\* next page is fetched.  (The break taken is one; the cap condition may
\* hold as well when the target break is taken.)
C6_TerminationCauses ==
    /\ pc \in {"return", "download", "done"} => stop \in {"cap", "exhausted", "target"}
    /\ stop = "cap" =>
          /\ max_pages # None /\ page_index >= Get(max_pages)
          /\ emptyPages = 0
          /\ ~(total_results # None /\ start >= Get(total_results))
    /\ stop = "exhausted" =>
          /\ emptyPages = 1
          /\ ~(max_pages # None /\ page_index >= Get(max_pages))
          /\ ~(total_results # None /\ start >= Get(total_results))
    /\ stop = "target" =>
          /\ total_results # None /\ start >= Get(total_results)
          /\ emptyPages = 0
    /\ pc = "loop" =>
          /\ stop = "none"
          /\ emptyPages = 0
          /\ ~(total_results # None /\ start >= Get(total_results))
          /\ (~(max_pages # None /\ page_index >= Get(max_pages))
                /\ Len(fetchLog) < MaxFetches)
             => (~ENABLED CapBreak /\ ENABLED LoopStep)

\* Two non-empty pages were received, the second listing only the id the
\* first had listed, and the loop is at its head again.
C6_Witness ==
    /\ pc = "loop"
    /\ page_index = 2
    /\ Len(collected) = 1
    /\ max_pages = None

(***************************************************************************)
(* Properties of download_papers, write_output and main.                   *)
(***************************************************************************)
Eligible(record) == record.pdf_url # None /\ record.id # <<>>
HasPath(record) == record.pdf_local_path # None
HasError(record) == record.pdf_download_error # None

\* C7: in a run of main, a step of the download pass changes the record at
\* idx only and leaves the pass running, whatever its outcome; a record with
\* pdf_url and id whose download was written in full gets pdf_local_path; a
\* record the pass has gone over carries pdf_local_path or
\* pdf_download_error if it has pdf_url and id; after the pass the metadata
\* write is enabled, and the file it writes holds every record, with count
\* the number of records collected.
C7_PartialFailureIsolation ==
    /\ [][(pc = "download" /\ idx' = idx + 1) =>
            /\ pc' = "download"
            /\ Len(records') = Len(records)
            /\ \A k \in 1..Len(records) : k # idx => records'[k] = records[k]
            /\ (Eligible(records[idx])
                  /\ files[Destination(records[idx].id)] = "absent"
                  /\ files'[Destination(records[idx].id)] = "full")
               => records'[idx].pdf_local_path = Some(Destination(records[idx].id))
            /\ Eligible(records[idx]) =>
                  (HasPath(records'[idx]) # HasError(records'[idx]))]_vars
    /\ [](pc = "download" /\ idx > Len(records) => ENABLED WriteMetadata)
    /\ []((pc = "done" /\ ~dry_run) =>
            /\ metadata # None
            /\ Get(metadata).complete
            /\ Get(metadata).count = Len(collected)
            /\ Get(metadata).records = records
            /\ Len(records) = Len(collected)
            /\ \A k \in 1..Len(records) :
                  Eligible(records[k]) => (HasPath(records[k]) \/ HasError(records[k])))

\* The first record's download failed, the second's succeeded, and the
\* metadata file holds both.
C7_Witness ==
    /\ pc = "done"
    /\ Len(records) = 2
    /\ HasError(records[1]) /\ ~HasPath(records[1])
    /\ HasPath(records[2]) /\ 2 \in fetched
    /\ metadata # None
    /\ Get(metadata).count = 2

\* C8 as stated: a second pass over the same records and the same directory
\* issues no request and leaves every pdf_local_path as the first pass left
\* it.
C8_SecondPassIdle ==
    pass = 2 =>
        /\ fetched = {}
        /\ \A k \in 1..Len(records) :
              k < idx => records[k].pdf_local_path = prevPaths[k]

\* C8 amended: a later pass issues no request for a record that began the
\* pass with pdf_local_path, and leaves that path as it was; hence a pass
\* that begins with every record with pdf_url and id carrying
\* pdf_local_path issues no request at all.
C8_SecondPassSkipsArchived ==
    pass >= 2 =>
        /\ \A k \in 1..Len(records) :
              prevPaths[k] # None =>
                  /\ k \notin fetched
                  /\ records[k].pdf_local_path = prevPaths[k]
        /\ (\A k \in 1..Len(records) : Eligible(records[k]) => prevPaths[k] # None)
              => fetched = {}

\* A second pass is over, it issued no request, and two records with
\* different destinations carry the paths the first pass gave them.
C8_Witness ==
    /\ pass = 2
    /\ idx > Len(records)
    /\ fetched = {}
    /\ Len(records) >= 2
    /\ \A k \in 1..2 : HasPath(records[k]) /\ ~HasError(records[k])
                          /\ records[k].pdf_local_path = prevPaths[k]
    /\ records[1].pdf_local_path # records[2].pdf_local_path

\* C9: no record carries both pdf_local_path and pdf_download_error.
C9_MutuallyExclusive ==
    \A k \in 1..Len(records) : ~(HasPath(records[k]) /\ HasError(records[k]))

\* C10: once a page request has failed, it is the last request issued, main
\* has been left by the exception, and nothing was handed to write_output:
\* no directory under the output root, no pdf request, no metadata file;
\* and no step of the run is enabled.
C10_FetchFailureFatal ==
    \A k \in 1..Len(fetchLog) :
        ~fetchLog[k].ok =>
            /\ k = Len(fetchLog)
            /\ pc = "aborted"
            /\ records = <<>>
            /\ fetched = {}
            /\ metadata = None
            /\ dirs \subseteq {"output_root"}
            /\ ~ENABLED Next

\* The second page request failed after the first page had been collected.
C10_Witness ==
    /\ Len(fetchLog) = 2
    /\ ~fetchLog[2].ok
    /\ Len(collected) >= 1
    /\ pc = "aborted"

(***************************************************************************)
(* Properties of the dry run.                                              *)
(***************************************************************************)
\* C11: in a run with --dry-run nothing is written: no directory is made,
\* the output root included, and no metadata file.
C11_DryRunWritesNothing ==
    dry_run => (dirs = {} /\ metadata = None)

\* C12: a dry run with no page cap that has printed its statistics has
\* fetched exactly one listing page.
C12_DryRunSinglePage ==
    (dry_run /\ max_pages = None /\ pc = "done") => Len(fetchLog) = 1

(***************************************************************************)
(* extract_total_results, lines 142-151, and RESULT_COUNT_PATTERN, lines   *)
(* 34-37.  A text is a sequence of characters, a page the sequence of the  *)
(* texts of its <p> elements as the parser hands them over, that is with   *)
(* the entities of the markup already decoded.                             *)
(***************************************************************************)
MaxThousands == 2

\* The character U+2013 as one element of a text.
EnDash == "EN DASH"
Digits == {"0", "1", "2", "3", "4", "5", "6", "7", "8", "9"}
DigitChars == <<"0", "1", "2", "3", "4", "5", "6", "7", "8", "9">>
DigitVal(c) == (CHOOSE i \in 1..10 : DigitChars[i] = c) - 1

UpperChars == <<"S", "H", "O", "W", "I", "N", "G", "R", "E", "U", "L", "T", "F">>
LowerChars == <<"s", "h", "o", "w", "i", "n", "g", "r", "e", "u", "l", "t", "f">>
\* re.IGNORECASE: characters are compared after case folding
Lower(c) ==
    IF \E i \in 1..Len(UpperChars) : UpperChars[i] = c
    THEN LowerChars[CHOOSE i \in 1..Len(UpperChars) : UpperChars[i] = c]
    ELSE c

\* A literal of the pattern at position i of the text: the position after
\* it, or 0 where it does not match (0 also passes a failure on).
MatchLit(text, i, lit) ==
    IF /\ i # 0
       /\ i + Len(lit) - 1 <= Len(text)
       /\ \A k \in 1..Len(lit) : Lower(text[i + k - 1]) = lit[k]
    THEN i + Len(lit)
    ELSE 0

\* cls*: the position after the longest run of characters of cls at i
RECURSIVE MatchStar(_, _, _)
MatchStar(text, i, cls) ==
    IF i # 0 /\ i <= Len(text) /\ text[i] \in cls
    THEN MatchStar(text, i + 1, cls)
    ELSE i

\* cls+: as cls*, and at least one character
MatchPlus(text, i, cls) ==
    IF i # 0 /\ i <= Len(text) /\ text[i] \in cls
    THEN MatchStar(text, i, cls)
    ELSE 0

\* lines 34-37: the pattern tried at position i; group 1 where it matches.
\* Neighbouring parts of the pattern accept disjoint characters, so the
\* longest run is the only way each repetition can match.
MatchAt(text, i) ==
    LET p1  == MatchLit(text, i, <<"s", "h", "o", "w", "i", "n", "g">>)
        p2  == MatchPlus(text, p1, Whitespace)
        p3  == MatchPlus(text, p2, Digits)
        p4  == MatchStar(text, p3, Whitespace)
        e5  == MatchLit(text, p4, <<"&", "n", "d", "a", "s", "h", ";">>)
        p5  == IF e5 # 0 THEN e5 ELSE MatchLit(text, p4, <<"-">>)
        p6  == MatchStar(text, p5, Whitespace)
        p7  == MatchPlus(text, p6, Digits)
        p8  == MatchPlus(text, p7, Whitespace)
        p9  == MatchLit(text, p8, <<"o", "f">>)
        p10 == MatchPlus(text, p9, Whitespace)
        p11 == MatchPlus(text, p10, Digits \cup {","})
        p12 == MatchPlus(text, p11, Whitespace)
        p13 == MatchLit(text, p12, <<"r", "e", "s", "u", "l", "t", "s">>)
    IN  IF p13 # 0 THEN Some(SubSeq(text, p10, p11 - 1)) ELSE None

\* line 148: RESULT_COUNT_PATTERN.search(text), the leftmost match
PatternSearch(text) ==
    LET hits == {i \in 1..Len(text) : MatchAt(text, i) # None}
    IN  IF hits = {} THEN None
        ELSE MatchAt(text, CHOOSE i \in hits : \A j \in hits : i <= j)

\* line 147: sub in text, the case kept
Contains(text, sub) ==
    \E i \in 1..(Len(text) - Len(sub) + 1) :
        SubSeq(text, i, i + Len(sub) - 1) = sub

\* line 150: .replace(",", "")
RECURSIVE RemoveCommas(_)
RemoveCommas(s) ==
    IF s = <<>> THEN <<>>
    ELSE IF Head(s) = "," THEN RemoveCommas(Tail(s))
         ELSE <<Head(s)>> \o RemoveCommas(Tail(s))

RECURSIVE DigitsValue(_)
DigitsValue(s) ==
    IF s = <<>> THEN 0
    ELSE 10 * DigitsValue(SubSeq(s, 1, Len(s) - 1)) + DigitVal(s[Len(s)])

\* line 150: int(...) of a string of digits; the empty string is a ValueError
ToInt(s) ==
    IF s = <<>> THEN [total |-> None, raised |-> TRUE]
    ELSE [total |-> Some(DigitsValue(s)), raised |-> FALSE]

\* line 146: element.get_text(strip=True)
get_text(element) == Strip(element, Whitespace)

\* lines 142-151
RECURSIVE extract_total_results(_)
extract_total_results(soup) ==
    IF soup = <<>> THEN [total |-> None, raised |-> FALSE]
    ELSE LET text == get_text(Head(soup))
             match == IF /\ Contains(text, <<"S", "h", "o", "w", "i", "n", "g">>)
                         /\ Contains(text, <<"r", "e", "s", "u", "l", "t", "s">>)
                      THEN PatternSearch(text)
                      ELSE None
         IN  IF match # None
             THEN ToInt(RemoveCommas(Get(match)))
             ELSE extract_total_results(Tail(soup))

\* The program's own variables while one function is called on its own.
ProgramAtRest ==
    /\ size = 1
    /\ max_pages = None
    /\ dry_run = FALSE
    /\ cookie = TRUE
    /\ initial_referer = None
    /\ initial_sec_fetch_site = Some("cross-site")
    /\ last_referer = None
    /\ seenOrder = <<>>
    /\ collected = <<>>
    /\ seen = {}
    /\ start = 0
    /\ total_results = None
    /\ page_index = 0
    /\ stop = "none"
    /\ fetchLog = <<>>
    /\ emptyPages = 0
    /\ firstExposed = None
    /\ exposedAt = 0
    /\ disagreed = FALSE
    /\ conflict = FALSE
    /\ firstSeen = [i \in Ids |-> None]
    /\ records = <<>>
    /\ idx = 1
    /\ files = [d \in Destinations |-> "absent"]
    /\ dirs = {}
    /\ metadata = None
    /\ fetched = {}
    /\ pass = 1
    /\ prevPaths = <<>>
    /\ partialWrites = {}

progVars == <<cfgVars, colVars, obsVars, arcVars, outVars>>

\* The decimal digits of a natural number.
RECURSIVE Decimal(_)
Decimal(n) ==
    IF n < 10 THEN <<DigitChars[n + 1]>>
    ELSE Decimal(n \div 10) \o <<DigitChars[(n % 10) + 1]>>

\* The same number written with thousands separators: 1234 as 1,234.
RECURSIVE WithSeparators(_)
WithSeparators(n) ==
    IF n < 1000 THEN Decimal(n)
    ELSE WithSeparators(n \div 1000) \o <<",">>
            \o <<DigitChars[((n \div 100) % 10) + 1],
                 DigitChars[((n \div 10) % 10) + 1],
                 DigitChars[(n % 10) + 1]>>

ShownTotals == {t * 1000 + r : t \in 0..MaxThousands, r \in {0, 7, 42, 999}}
ShowingWords ==
    { <<"S", "h", "o", "w", "i", "n", "g">>,
      <<"s", "h", "o", "w", "i", "n", "g">>,
      <<"S", "H", "O", "W", "I", "N", "G">> }
ResultsWords ==
    { <<"r", "e", "s", "u", "l", "t", "s">>,
      <<"R", "E", "S", "U", "L", "T", "S">> }
Paddings == {<<>>, <<" ">>}

\* "Showing 1<sep>2 of <shown> results"
SummaryText(showing, sep, pad, shown, results) ==
    showing \o <<" ", "1">> \o pad \o sep \o pad \o <<"2", " ", "o", "f", " ">>
            \o shown \o <<" ">> \o results

SummaryTexts(seps, n) ==
    { SummaryText(w, sep, pad, shown, r) :
        w \in ShowingWords, sep \in seps, pad \in Paddings,
        shown \in {Decimal(n), WithSeparators(n)}, r \in ResultsWords }

\* Texts of paragraphs that are no result summary.
NoResults == <<"N", "o", " ", "r", "e", "s", "u", "l", "t", "s">>
ShowingAll ==
    <<"S", "h", "o", "w", "i", "n", "g", " ", "a", "l", "l", " ",
      "r", "e", "s", "u", "l", "t", "s">>
ShowingOfNothing ==
    <<"S", "h", "o", "w", "i", "n", "g", " ", "1", "-", "2", " ", "o", "f", " ",
      ",", " ", "r", "e", "s", "u", "l", "t", "s">>
OtherTexts == {NoResults, ShowingAll, <<" ">> \o NoResults \o <<" ">>}

\* A page around a summary text: alone, or after another paragraph.
PagesAround(text) == {<<text>>} \cup {<<other, text>> : other \in OtherTexts}

\* The calls: [soup, summary], summary being "dash" with the total shown
\* where the page has a summary with a hyphen or an en-dash, "entity" where
\* it has the seven characters &ndash; in their place, "absent" where it has
\* no summary.
TotalsInputs ==
    UNION { { [soup |-> page, summary |-> "dash", shown |-> n] :
                page \in UNION {PagesAround(t) :
                                  t \in SummaryTexts({<<"-">>, <<EnDash>>}, n)} }
            \cup
            { [soup |-> page, summary |-> "entity", shown |-> n] :
                page \in UNION {PagesAround(t) :
                                  t \in SummaryTexts({<<"&", "n", "d", "a", "s", "h", ";">>}, n)} }
            : n \in ShownTotals }
    \cup
    { [soup |-> page, summary |-> "absent", shown |-> 0] :
        page \in SeqsUpTo(OtherTexts \cup {ShowingOfNothing}, 2) }

InitTotals ==
    /\ pc = "call"
    /\ ProgramAtRest
    /\ arg \in TotalsInputs
    /\ ret = None

ExtractTotal ==
    /\ pc = "call"
    /\ pc' = "returned"
    /\ ret' = extract_total_results(arg.soup)
    /\ UNCHANGED <<arg, progVars>>

SpecTotals == InitTotals /\ [][ExtractTotal]_vars

\* C13: extract_total_results returns T for a page whose summary reads
\* "Showing M-N of T results" with a hyphen or an en-dash, in any letter
\* case, T with or without thousands separators; for a page without such a
\* summary it returns no total; it never raises.
C13_TotalExtraction ==
    pc = "returned" =>
        /\ ~ret.raised
        /\ arg.summary = "dash" => ret.total = Some(arg.shown)
        /\ arg.summary = "absent" => ret.total = None

(***************************************************************************)
(* Properties of the destination paths and of slugify.                     *)
(***************************************************************************)
\* C14: two records of one batch that the archiver has processed and not
\* skipped and whose ids differ have different destination paths.
C14_DistinctDestinations ==
    \A j, k \in 1..Len(records) :
        (/\ j < idx /\ k < idx
         /\ ~Skipped(records[j])
         /\ ~Skipped(records[k])
         /\ records[j].id # records[k].id)
            => Destination(records[j].id) # Destination(records[k].id)

MaxSlugLen == 4

\* Characters of the slugify inputs: safe ones, a space, an unsafe one.
SlugAlphabet == {"a", "A", "0", "_", ".", "-", " ", "!"}
QuantumComputing ==
    <<"q", "u", "a", "n", "t", "u", "m", " ",
      "c", "o", "m", "p", "u", "t", "i", "n", "g", "!", "!">>
SlugInputs == SeqsUpTo(SlugAlphabet, MaxSlugLen) \cup {QuantumComputing}

InitSlug ==
    /\ pc = "call"
    /\ ProgramAtRest
    /\ arg \in SlugInputs
    /\ ret = None

Slugify ==
    /\ pc = "call"
    /\ pc' = "returned"
    /\ ret' = slugify(arg)
    /\ UNCHANGED <<arg, progVars>>

SpecSlug == InitSlug /\ [][Slugify]_vars

\* The stated rule, position by position.  A character of the input is kept
\* unless it is whitespace that follows whitespace; a kept character is
\* written as itself when it is in [A-Za-z0-9_.-] and as an underscore
\* otherwise; of the text so written, the part from the first to the last
\* character other than underscore and dot remains.
RuleKept(value) ==
    {i \in 1..Len(value) :
        value[i] \in Whitespace => (i = 1 \/ value[i - 1] \notin Whitespace)}
RuleChar(c) == IF c \in SafeChars /\ c \notin Whitespace THEN c ELSE "_"
RuleCore(value) ==
    {i \in RuleKept(value) : RuleChar(value[i]) \notin {"_", "."}}
RuleHolds(value, result) ==
    IF RuleCore(value) = {}
    THEN result = DefaultName
    ELSE LET lo == CHOOSE i \in RuleCore(value) : \A j \in RuleCore(value) : i <= j
             hi == CHOOSE i \in RuleCore(value) : \A j \in RuleCore(value) : j <= i
             span == {i \in RuleKept(value) : lo <= i /\ i <= hi}
         IN  /\ Len(result) = Cardinality(span)
             /\ \A i \in span :
                    result[Cardinality({j \in span : j <= i})] = RuleChar(value[i])

\* C15: slugify returns what the stated rule gives: whitespace runs collapsed
\* to one underscore, characters outside [A-Za-z0-9_.-] replaced by
\* underscore, leading and trailing underscores and dots stripped, "search"
\* when nothing is left; the result is never empty and holds only allowed
\* characters; "quantum computing!!" gives "quantum_computing" and three
\* spaces give "search".
C15_SlugRule ==
    pc = "returned" =>
        /\ RuleHolds(arg, ret)
        /\ ret # <<>>
        /\ \A i \in 1..Len(ret) : ret[i] \in SafeChars
        /\ arg = QuantumComputing =>
              ret = <<"q", "u", "a", "n", "t", "u", "m", "_",
                      "c", "o", "m", "p", "u", "t", "i", "n", "g">>
        /\ arg = <<" ", " ", " ">> => ret = <<"s", "e", "a", "r", "c", "h">>

\* slugify has returned for an input with a whitespace run inside.
C15_Witness ==
    /\ pc = "returned"
    /\ arg = <<"a", " ", " ", "0">>
    /\ ret = <<"a", "_", "0">>

(***************************************************************************)
(* collect_records on its own, lines 199-276, called with each combination *)
(* of initial referer and initial site signal.                             *)
(***************************************************************************)
InitCollect ==
    /\ pc = "loop"
    /\ size \in 1..MaxSize
    /\ max_pages \in Optional(0..MaxCap)
    /\ dry_run = FALSE
    /\ cookie = TRUE
    /\ initial_referer \in Optional({InitialUrl})
    /\ initial_sec_fetch_site \in Optional(SiteSignals)
    /\ last_referer = initial_referer
    /\ collected = <<>>
    /\ seen = {}
    /\ start = 0
    /\ total_results = None
    /\ page_index = 0
    /\ stop = "none"
    /\ fetchLog = <<>>
    /\ emptyPages = 0
    /\ firstExposed = None
    /\ exposedAt = 0
    /\ disagreed = FALSE
    /\ conflict = FALSE
    /\ firstSeen = [i \in Ids |-> None]
    /\ seenOrder = <<>>
    /\ records = <<>>
    /\ idx = 1
    /\ files = [d \in Destinations |-> "absent"]
    /\ dirs = {}
    /\ metadata = None
    /\ fetched = {}
    /\ pass = 1
    /\ prevPaths = <<>>
    /\ partialWrites = {}
    /\ arg = <<>>
    /\ ret = None

NextCollect == CapBreak \/ FetchError \/ LoopStep

SpecCollect == InitCollect /\ [][NextCollect]_vars

IdsOf(recs) == [k \in 1..Len(recs) |-> recs[k].id]
IsPrefix(s, t) == Len(s) <= Len(t) /\ SubSeq(t, 1, Len(s)) = s

\* C16: collected is append-only in first-seen order: every step leaves the
\* previous value of collected a prefix of the new one, and the ids of
\* collected are the ids the server listed, in the order of their first
\* listing, page after page and within a page by position.
C16_AppendOnlyFirstSeen ==
    /\ [](IdsOf(collected) = seenOrder)
    /\ [][IsPrefix(collected, collected')]_vars

\* Two pages were received and the record listed first is not the one that
\* sorts first.
C16_Witness ==
    /\ page_index = 2
    /\ IdsOf(collected) = << <<"b">>, <<"a">> >>

\* C17: the k-th page request (k = 0, 1, 2, ...) is issued with offset
\* k * size, offset = page_index * size holds at every loop head, and the
\* start parameter is sent, with the offset as its value, exactly when the
\* offset is positive.
C17_OffsetArithmetic ==
    /\ \A k \in 1..Len(fetchLog) :
          /\ fetchLog[k].start = (k - 1) * size
          /\ fetchLog[k].start > 0 <=> fetchLog[k].param # None
          /\ fetchLog[k].param \in {None, Some(fetchLog[k].start)}
    /\ pc = "loop" => start = page_index * size

\* Three requests were issued with page size 2: the first without a start
\* parameter, the third with start = 4.
C17_Witness ==
    /\ size = 2
    /\ Len(fetchLog) = 3
    /\ fetchLog[1].param = None
    /\ fetchLog[3].param = Some(4)

\* C18: the first page request carries the configured initial referer, if
\* one is supplied, together with the configured initial site signal; the
\* same-origin signal is sent only on the second and later requests, each of
\* which carries as referer the location of the preceding response.
C18_HeaderProtocol ==
    \A k \in 1..Len(fetchLog) :
        /\ k = 1 => /\ fetchLog[k].referer = initial_referer
                    /\ fetchLog[k].site = initial_sec_fetch_site
        /\ k > 1 => fetchLog[k].referer = Some(FetchedUrl(k - 1))
        /\ fetchLog[k].site = Some("same-origin") => k > 1

(***************************************************************************)
(* Properties of the fields download_papers writes.                        *)
(***************************************************************************)
\* C19: download_papers changes only the artifact fields: a step keeps the
\* length of the record list and every record's id, title, abs_url and
\* pdf_url; the step for a record with no pdf_url or no id issues no request
\* and writes no file, and such a record has neither pdf_local_path nor
\* pdf_download_error.
C19_OnlyArtifactFields ==
    /\ [](\A k \in 1..Len(records) :
            ~Eligible(records[k]) =>
                /\ ~HasPath(records[k])
                /\ ~HasError(records[k])
                /\ k \notin fetched)
    /\ [][pc = "download" =>
            /\ Len(records') = Len(records)
            /\ \A k \in 1..Len(records) :
                  /\ records'[k].id = records[k].id
                  /\ records'[k].title = records[k].title
                  /\ records'[k].abs_url = records[k].abs_url
                  /\ records'[k].pdf_url = records[k].pdf_url
            /\ (idx <= Len(records) /\ idx' = idx + 1 /\ ~Eligible(records[idx]))
                  => (records' = records /\ files' = files /\ fetched' = fetched)
       ]_vars

\* A pass has ended over a batch with a record without pdf_url, left bare,
\* and a record that was downloaded.
C19_Witness ==
    /\ idx > Len(records)
    /\ \E j, k \in 1..Len(records) :
          /\ records[j].pdf_url = None /\ records[j].id # <<>>
          /\ ~HasPath(records[j]) /\ ~HasError(records[j])
          /\ k \in fetched /\ HasPath(records[k])

\* C20: no record carries a pdf_local_path to a file that a failed write of
\* download_papers left partially written, whatever passes follow over the
\* same directory.
C20_PathOnlyToCompleteFile ==
    \A k \in 1..Len(records) :
        (HasPath(records[k]) /\ Get(records[k].pdf_local_path) \in partialWrites)
            => files[Get(records[k].pdf_local_path)] = "full"

====
